---- MODULE Spec2Model ----
(***************************************************************************)
(* Model of the URL -> summary -> quiz backend: the request handler        *)
(* process_url (src/main.py), the guardrail predicates                      *)
(* (src/modules/guardrails.py), the content extractor                       *)
(* (src/modules/scraper.py) and the results of the summarizer and the quiz *)
(* generator (src/modules/summarizer.py, src/modules/quiz_generator.py).    *)
(*                                                                         *)
(* Python values are represented as follows.                               *)
(*  - A short string (URL, message, dictionary key) is a TLA+ string.      *)
(*  - A text whose length matters (summary, page text, transcript) is a    *)
(*    sequence of segments [s |-> string, n |-> count]: the string s       *)
(*    repeated n times.  Literal segments have n = 1; the only repeated    *)
(*    segment is the one-character filler PadChar, which is no white       *)
(*    space, has no upper case and occurs in no searched pattern, so       *)
(*    len(), lower(), strip() and `pattern in text` are exact on it.       *)
(*  - A JSON value is a record [t |-> tag, <payload field of that tag>].    *)
(*  - A Python call either returns or raises: validators that can raise    *)
(*    yield [raised |-> TRUE, exc |-> text].                               *)
(***************************************************************************)
EXTENDS Integers, Sequences, FiniteSets, TLC

VARIABLES
    pc,                 \* position of process_url
    config,             \* the configuration: API key set, SUMMARIZATION_MODEL
    request,            \* what request.get_json() yields
    url,                \* local `url` of process_url
    url_check,          \* (is_safe, msg) of validate_url
    world,              \* what the service called by extract_content answered
    extraction_result,  \* local `extraction_result`
    summary_result,     \* local `summary_result`
    summary_check,      \* (is_valid, msg) of validate_summary
    quiz_result,        \* local `quiz_result`
    quiz_check,         \* outcome of validate_quiz
    response,           \* (body, status code) returned to the client
    calls,              \* collaborators invoked so far, in order
    logged,             \* what logger.error / logger.warning recorded
    arg,                \* unit level: the argument of a guardrail call
    ret                 \* unit level: what the guardrail call produced

vars == <<pc, config, request, url, url_check, world, extraction_result, summary_result,
          summary_check, quiz_result, quiz_check, response, calls, logged, arg, ret>>

(***************************************************************************)
(* Strings                                                                 *)
(***************************************************************************)
UpperAlpha == "ABCDEFGHIJKLMNOPQRSTUVWXYZ"
LowerAlpha == "abcdefghijklmnopqrstuvwxyz"

CharAt(s, i) == SubSeq(s, i, i)

\* str.lower() on one character
LowerChar(c) ==
    IF \E i \in 1..Len(UpperAlpha) : CharAt(UpperAlpha, i) = c
    THEN CharAt(LowerAlpha, CHOOSE i \in 1..Len(UpperAlpha) : CharAt(UpperAlpha, i) = c)
    ELSE c

RECURSIVE LowerStr(_)
\* str.lower()
LowerStr(s) == IF s = "" THEN "" ELSE LowerChar(Head(s)) \o LowerStr(Tail(s))

\* s[i:].startswith(p), i counted from 1
StartsWithAt(s, i, p) == i >= 1 /\ i + Len(p) - 1 <= Len(s) /\ SubSeq(s, i, i + Len(p) - 1) = p

\* `p in s` for two strings
InStr(p, s) == \E i \in 1..(Len(s) + 1) : StartsWithAt(s, i, p)

Whitespace == {" ", "\t", "\n", "\r"}

RECURSIVE LStripStr(_)
LStripStr(s) == IF s # "" /\ Head(s) \in Whitespace THEN LStripStr(Tail(s)) ELSE s

RECURSIVE RStripStr(_)
RStripStr(s) ==
    IF s # "" /\ CharAt(s, Len(s)) \in Whitespace THEN RStripStr(SubSeq(s, 1, Len(s) - 1)) ELSE s

\* str.strip()
StripStr(s) == RStripStr(LStripStr(s))

\* s[:k]
Prefix(s, k) == SubSeq(s, 1, IF Len(s) < k THEN Len(s) ELSE k)

(***************************************************************************)
(* Texts                                                                   *)
(***************************************************************************)
PadChar == "#"

\* the text of a literal string
T(s) == IF s = "" THEN <<>> ELSE <<[s |-> s, n |-> 1]>>
\* k filler characters
Pad(k) == IF k = 0 THEN <<>> ELSE <<[s |-> PadChar, n |-> k]>>

RECURSIVE TextLen(_)
\* len(text)
TextLen(t) == IF t = <<>> THEN 0 ELSE Len(t[1].s) * t[1].n + TextLen(Tail(t))

\* text.lower()
TextLower(t) == [i \in 1..Len(t) |-> [s |-> LowerStr(t[i].s), n |-> t[i].n]]

RECURSIVE Skeleton(_)
\* the text with every filler run shortened to one filler character
Skeleton(t) ==
    IF t = <<>> THEN ""
    ELSE (IF t[1].n = 0 THEN "" ELSE t[1].s) \o Skeleton(Tail(t))

\* `p in text` for a pattern p without filler characters
InText(p, t) == InStr(p, Skeleton(t))

RECURSIVE TextLStrip(_)
TextLStrip(t) ==
    IF t = <<>> THEN <<>>
    ELSE IF t[1].n = 0 \/ LStripStr(t[1].s) = "" THEN TextLStrip(Tail(t))
    ELSE <<[s |-> LStripStr(t[1].s), n |-> t[1].n]>> \o Tail(t)

RECURSIVE TextRStrip(_)
TextRStrip(t) ==
    IF t = <<>> THEN <<>>
    ELSE LET k == Len(t) IN
         IF t[k].n = 0 \/ RStripStr(t[k].s) = "" THEN TextRStrip(SubSeq(t, 1, k - 1))
         ELSE SubSeq(t, 1, k - 1) \o <<[s |-> RStripStr(t[k].s), n |-> t[k].n]>>

\* text.strip()
TextStrip(t) == TextRStrip(TextLStrip(t))

(***************************************************************************)
(* JSON values                                                             *)
(***************************************************************************)
JNull == [t |-> "null"]
JBool(b) == [t |-> "bool", b |-> b]
JNum(k) == [t |-> "num", k |-> k]
JStr(text) == [t |-> "str", s |-> text]
JList(items) == [t |-> "list", items |-> items]
JDict(f) == [t |-> "dict", fields |-> f]

\* an empty dict: a function with empty domain
EmptyFields == [k \in {} |-> JNull]

\* bool(value)
Truthy(j) ==
    CASE j.t = "null" -> FALSE
      [] j.t = "bool" -> j.b
      [] j.t = "num" -> j.k # 0
      [] j.t = "str" -> TextLen(j.s) # 0
      [] j.t = "list" -> Len(j.items) # 0
      [] j.t = "dict" -> DOMAIN j.fields # {}

\* len(value) is defined
Sized(j) == j.t \in {"str", "list", "dict"}

\* `key in value` for a dict
HasKey(j, key) == j.t = "dict" /\ key \in DOMAIN j.fields

\* hash(value) is defined, so the value can be looked up in a dict
Hashable(j) == j.t \notin {"list", "dict"}

(***************************************************************************)
(* Configuration (src/config.py)                                           *)
(***************************************************************************)
MIN_SUMMARY_LENGTH == 100
MAX_SUMMARY_LENGTH == 200000

(***************************************************************************)
(* Guardrails (src/modules/guardrails.py)                                  *)
(***************************************************************************)
Verdict(ok, msg) == [raised |-> FALSE, ok |-> ok, msg |-> msg]
Raise(exc) == [raised |-> TRUE, exc |-> exc]
NotCalled == [raised |-> FALSE, ok |-> FALSE, msg |-> "(not called)"]

forbidden_patterns ==
    <<"violence", "hate", "adult content", "explicit", "drugs", "weapons", "illegal">>

\* validate_summary without the lower() of line 26
validate_summary_case_sensitive(summary) ==
    IF TextLen(summary) = 0 THEN Verdict(FALSE, "Summary is empty")
    ELSE IF TextLen(summary) < MIN_SUMMARY_LENGTH
    THEN Verdict(FALSE, "Summary too short (min 100 chars)")
    ELSE IF TextLen(summary) > MAX_SUMMARY_LENGTH
    THEN Verdict(FALSE, "Summary too long (max 200000 chars)")
    ELSE IF \E i \in 1..Len(forbidden_patterns) : InText(forbidden_patterns[i], summary)
         THEN Verdict(FALSE, "Content contains inappropriate material")
         ELSE Verdict(TRUE, "Summary passed validation")

\* validate_summary without the minimum length of lines 15-16
validate_summary_without_minimum(summary) ==
    IF TextLen(summary) = 0 THEN Verdict(FALSE, "Summary is empty")
    ELSE IF TextLen(summary) > MAX_SUMMARY_LENGTH
    THEN Verdict(FALSE, "Summary too long (max 200000 chars)")
    ELSE LET summary_lower == TextLower(summary) IN
         IF \E i \in 1..Len(forbidden_patterns) : InText(forbidden_patterns[i], summary_lower)
         THEN Verdict(FALSE, "Content contains inappropriate material")
         ELSE Verdict(TRUE, "Summary passed validation")

validate_summary(summary) ==
    IF TextLen(summary) = 0 THEN Verdict(FALSE, "Summary is empty")
    ELSE IF TextLen(summary) < MIN_SUMMARY_LENGTH
    THEN Verdict(FALSE, "Summary too short (min 100 chars)")
    ELSE IF TextLen(summary) > MAX_SUMMARY_LENGTH
    THEN Verdict(FALSE, "Summary too long (max 200000 chars)")
    ELSE LET summary_lower == TextLower(summary) IN
         IF \E i \in 1..Len(forbidden_patterns) : InText(forbidden_patterns[i], summary_lower)
         THEN Verdict(FALSE, "Content contains inappropriate material")
         ELSE Verdict(TRUE, "Summary passed validation")

dangerous_protocols == <<"javascript:", "data:", "vbscript:">>

\* validate_url that looks for the protocol at the start of the URL only
validate_url_scheme_anchored(u) ==
    LET url_lower == LowerStr(u) IN
    IF \E i \in 1..Len(dangerous_protocols) : StartsWithAt(url_lower, 1, dangerous_protocols[i])
    THEN Verdict(FALSE, "Unsafe URL protocol detected")
    ELSE Verdict(TRUE, "URL is safe")

validate_url(u) ==
    LET url_lower == LowerStr(u) IN
    IF \E i \in 1..Len(dangerous_protocols) : InStr(dangerous_protocols[i], url_lower)
    THEN Verdict(FALSE, "Unsafe URL protocol detected")
    ELSE Verdict(TRUE, "URL is safe")

required_fields ==
    [multiple_choice |-> <<"id", "question", "options", "correct_answer">>,
     true_false |-> <<"id", "question", "correct_answer">>,
     fill_blank |-> <<"id", "question", "correct_answer">>]

\* the text is exactly the string s
TextEquals(t, s) == Skeleton(t) = s /\ TextLen(t) = Len(s)

\* str(value) as an f-string shows it
PyStr(j) ==
    CASE j.t = "null" -> "None"
      [] j.t = "bool" -> IF j.b THEN "True" ELSE "False"
      [] j.t = "num" -> "<number>"
      [] j.t = "str" -> Skeleton(j.s)
      [] OTHER -> "<container>"

\* q.get('type', 'unknown')
QuestionType(q) ==
    IF "type" \in DOMAIN q.fields THEN q.fields["type"] ELSE JStr(T("unknown"))

\* `q_type in required_fields`
KnownType(q_type) ==
    q_type.t = "str" /\ \E name \in DOMAIN required_fields : TextEquals(q_type.s, name)

TypeName(q_type) == CHOOSE name \in DOMAIN required_fields : TextEquals(q_type.s, name)

\* lines 52-54 for one question of a known type: the first absent field, 0 if none
FirstMissing(q, fields) ==
    IF \E k \in 1..Len(fields) : fields[k] \notin DOMAIN q.fields
    THEN CHOOSE k \in 1..Len(fields) :
            /\ fields[k] \notin DOMAIN q.fields
            /\ \A m \in 1..(k - 1) : fields[m] \in DOMAIN q.fields
    ELSE 0

RECURSIVE QuizLoop(_, _)
\* the loop of lines 46-56 from the i-th question on
QuizLoop(items, i) ==
    IF i > Len(items) THEN Verdict(TRUE, "Quiz passed validation")
    ELSE LET q == items[i] IN
         IF q.t # "dict" THEN Raise("AttributeError: object has no attribute 'get'")
         ELSE LET q_type == QuestionType(q) IN
              IF ~Hashable(q_type) THEN Raise("TypeError: unhashable type")
              ELSE IF ~KnownType(q_type)
              THEN Verdict(FALSE, "Unknown question type: " \o PyStr(q_type))
              ELSE LET fields == required_fields[TypeName(q_type)]
                       k == FirstMissing(q, fields)
                   IN IF k # 0
                      THEN Verdict(FALSE, "Missing field '" \o fields[k] \o "' in question")
                      ELSE QuizLoop(items, i + 1)

validate_quiz(quiz_questions) ==
    IF ~Truthy(quiz_questions) THEN Verdict(FALSE, "No quiz questions generated")
    ELSE IF ~Sized(quiz_questions) THEN Raise("TypeError: object has no len()")
    ELSE IF quiz_questions.t = "list" THEN QuizLoop(quiz_questions.items, 1)
    \* iterating a str yields characters, iterating a dict yields its keys
    ELSE Raise("AttributeError: 'str' object has no attribute 'get'")

(***************************************************************************)
(* Content extractor (src/modules/scraper.py)                              *)
(***************************************************************************)
MIN_TRANSCRIPT_LENGTH == 50
MIN_ARTICLE_LENGTH == 100

SetMin(S) == CHOOSE x \in S : \A y \in S : x <= y
SetMax(S) == CHOOSE x \in S : \A y \in S : y <= x

RECURSIVE IntStr(_)
\* str(k) for k >= 0
IntStr(k) == IF k < 10 THEN CharAt("0123456789", k + 1)
             ELSE IntStr(k \div 10) \o CharAt("0123456789", (k % 10) + 1)

\* an error result; the pictograph that opens some messages of the source is left out
ErrorResult(message, u) == [status |-> "error", message |-> message, url |-> u]

\* the positions behind an alternative that starts at one of the positions
AfterOneOf(s, positions, alternatives) ==
    {x[1] + Len(x[2]) : x \in {y \in positions \X alternatives : StartsWithAt(s, y[1], y[2])}}
\* the same for an optional group
AfterOptional(s, positions, alternatives) ==
    positions \cup AfterOneOf(s, positions, alternatives)

\* re.match(r'(https?://)?(www\.)?(youtube|youtu|youtube-nocookie)\.(com|be)/', url)
is_youtube_url(u) ==
    LET scheme == AfterOptional(u, {1}, {"http://", "https://"})
        www == AfterOptional(u, scheme, {"www."})
        name == AfterOneOf(u, www, {"youtube", "youtu", "youtube-nocookie"})
        dot == AfterOneOf(u, name, {"."})
        tld == AfterOneOf(u, dot, {"com", "be"})
    IN AfterOneOf(u, tld, {"/"}) # {}

RECURSIVE Run(_, _, _)
\* the longest run of characters outside `stop` from position i on: a greedy [^...]+
Run(s, i, stop) ==
    IF i > Len(s) \/ CharAt(s, i) \in stop THEN ""
    ELSE CharAt(s, i) \o Run(s, i + 1, stop)

\* the regex `(?:a1|a2|...)([^stop]+)` matches at position i
GroupMatchesAt(s, i, alternatives, stop) ==
    \E a \in alternatives : StartsWithAt(s, i, a) /\ Run(s, i + Len(a), stop) # ""

\* re.search of `(?:a1|a2|...)([^stop]+)`: group 1 of the leftmost match, "" for None
\* (no two alternatives of the patterns below match at the same position)
SearchGroup(s, alternatives, stop) ==
    LET starts == {i \in 1..Len(s) : GroupMatchesAt(s, i, alternatives, stop)} IN
    IF starts = {} THEN ""
    ELSE LET i == SetMin(starts)
             a == CHOOSE b \in alternatives :
                     StartsWithAt(s, i, b) /\ Run(s, i + Len(b), stop) # ""
         IN Run(s, i + Len(a), stop)

\* re.search of `youtube\.com\/watch\?.*v=([^stop]+)`: the greedy `.*` (no newline)
\* ends at the last "v=" that a group character follows
SearchWatchGroup(s, stop) ==
    LET head == "youtube.com/watch?"
        ends(i) == {j \in (i + Len(head))..Len(s) :
                      /\ StartsWithAt(s, j, "v=")
                      /\ Run(s, j + 2, stop) # ""
                      /\ \A k \in (i + Len(head))..(j - 1) : CharAt(s, k) # "\n"}
        starts == {i \in 1..Len(s) : StartsWithAt(s, i, head) /\ ends(i) # {}}
    IN IF starts = {} THEN "" ELSE Run(s, SetMax(ends(SetMin(starts))) + 2, stop)

\* the video identifier, "" for None (a matched group is never empty)
extract_youtube_id(u) ==
    LET m1 == SearchGroup(u, {"youtube.com/watch?v=", "youtu.be/", "youtube.com/embed/"},
                          {"&", "\n", "?", "#"})
        m2 == SearchWatchGroup(u, {"&", "\n", "?", "#"})
        m3 == SearchGroup(u, {"youtu.be/"}, {"?", "&"})
        m4 == SearchGroup(u, {"youtube.com/embed/"}, {"?", "&"})
    IN IF m1 # "" THEN m1 ELSE IF m2 # "" THEN m2 ELSE IF m3 # "" THEN m3 ELSE m4

\* type(value).__name__
PyTypeName(j) ==
    CASE j.t = "null" -> "NoneType"
      [] j.t = "bool" -> "bool"
      [] j.t = "num" -> "int"
      [] j.t = "str" -> "str"
      [] j.t = "list" -> "list"
      [] j.t = "dict" -> "dict"

RECURSIVE JoinTexts(_, _)
\* sep.join(texts)
JoinTexts(sep, texts) ==
    IF texts = <<>> THEN <<>>
    ELSE IF Len(texts) = 1 THEN texts[1]
    ELSE texts[1] \o sep \o JoinTexts(sep, Tail(texts))

RECURSIVE TextOf(_)
\* str(value): the repr of a container lists its elements (dict keys in a fixed order)
TextOf(j) ==
    CASE j.t = "null" -> T("None")
      [] j.t = "bool" -> T(IF j.b THEN "True" ELSE "False")
      [] j.t = "num" -> T(IntStr(j.k))
      [] j.t = "str" -> j.s
      [] j.t = "list" ->
            T("[") \o JoinTexts(T(", "),
                        [i \in 1..Len(j.items) |->
                            IF j.items[i].t = "str"
                            THEN T("'") \o j.items[i].s \o T("'")
                            ELSE TextOf(j.items[i])]) \o T("]")
      [] j.t = "dict" -> T("{...}")

\* what the parsing of a 200 response found: a value, nothing, or an exception
Found(j) == [kind |-> "value", value |-> j]
NothingFound == [kind |-> "none"]
Raised(text) == [kind |-> "raise", text |-> text]

\* line 159: ' '.join([item.get('text', '') for item in transcript_data if isinstance(item, dict)])
JoinFragments(transcript_data) ==
    IF transcript_data.t \in {"null", "bool", "num"}
    THEN Raised("'" \o PyTypeName(transcript_data) \o "' object is not iterable")
    ELSE IF transcript_data.t # "list"
    THEN Found(JStr(<<>>))  \* the characters of a str and the keys of a dict are no dicts
    ELSE LET dicts == SelectSeq(transcript_data.items, LAMBDA x : x.t = "dict")
             texts == [i \in 1..Len(dicts) |->
                          IF "text" \in DOMAIN dicts[i].fields
                          THEN dicts[i].fields["text"] ELSE JStr(<<>>)]
         IN IF \E i \in 1..Len(texts) : texts[i].t # "str"
            THEN Raised("sequence item: expected str instance")
            ELSE Found(JStr(JoinTexts(T(" "), [i \in 1..Len(texts) |-> texts[i].s])))

\* lines 144-170: the if/elif chain over the shapes of the first list item (a dict)
TranscriptContent(transcript_item) ==
    LET f == transcript_item.fields IN
    IF "text" \in DOMAIN f THEN Found(f["text"])
    ELSE IF "tracks" \in DOMAIN f
    THEN LET tracks == f["tracks"] IN
         IF tracks.t = "list" /\ Len(tracks.items) > 0
         THEN LET track == tracks.items[1] IN
              IF track.t = "dict" /\ "transcript" \in DOMAIN track.fields
              THEN JoinFragments(track.fields["transcript"])
              ELSE NothingFound
         ELSE NothingFound
    ELSE IF "content" \in DOMAIN f THEN Found(f["content"])
    ELSE NothingFound

\* the inner `except Exception as e` raising the exception again
TranscriptException_reraised(text, u) == Raise(text)

\* lines 216-237: the inner `except Exception as e`
TranscriptException(text, u) ==
    LET error_str == LowerStr(text) IN
    IF InStr("disabled", error_str)
    THEN ErrorResult("Transcripts are disabled for this video.", u)
    ELSE IF InStr("not found", error_str) \/ InStr("no transcript", error_str)
    THEN ErrorResult("No captions found. Try another video or use an article URL.", u)
    ELSE ErrorResult("Failed: " \o Prefix(text, 100), u)

\* the answer to a response whose status is not 200, without the status
TranscriptApiError_without_status(status, u) ==
    ErrorResult("API Error. Video may not have captions.", u)

\* lines 120-126: the answer to a response whose status is not 200
TranscriptApiError(status, u) ==
    ErrorResult("API Error: " \o IntStr(status) \o ". Video may not have captions.", u)

\* lines 128-198: a 200 response whose body parsed to `data`
ParseTranscript(data, video_id, u) ==
    IF ~Truthy(data) \/ data.t # "list"
    THEN ErrorResult("No transcript found for this video.", u)
    ELSE LET transcript_item == data.items[1] IN
         IF transcript_item.t # "dict"
         THEN \* line 141: transcript_item.keys()
              TranscriptException("'" \o PyTypeName(transcript_item)
                                      \o "' object has no attribute 'keys'", u)
         ELSE LET found == TranscriptContent(transcript_item) IN
              IF found.kind = "raise" THEN TranscriptException(found.text, u)
              ELSE IF found.kind = "none" \/ ~Truthy(found.value)
              THEN ErrorResult("Failed to parse transcript data.", u)
              ELSE LET content == TextStrip(TextOf(found.value)) IN
                   IF TextLen(content) = 0 \/ TextLen(content) < MIN_TRANSCRIPT_LENGTH
                   THEN ErrorResult("Transcript is empty or too short.", u)
                   ELSE [status |-> "success",
                         title |-> JStr(T("YouTube Video: " \o video_id)),
                         content |-> content, url |-> u, type |-> "video"]

\* `post`: what requests.post and response.json() do when called
get_youtube_transcript(u, api_key, post) ==
    LET video_id == extract_youtube_id(u) IN
    IF video_id = ""
    THEN ErrorResult("Invalid YouTube URL format. Please check the URL.", u)
    ELSE IF ~api_key
    THEN ErrorResult("API key not configured. Please set YOUTUBE_TRANSCRIPT_IO_API_KEY in .env", u)
    ELSE IF post.kind = "timeout" THEN ErrorResult("Request timed out. Please try again.", u)
    ELSE IF post.kind = "exception" THEN TranscriptException(post.text, u)
    ELSE IF post.status # 200 THEN TranscriptApiError(post.status, u)
    ELSE IF ~post.body.valid THEN ErrorResult("Failed to parse API response.", u)
    ELSE ParseTranscript(post.body.data, video_id, u)

RECURSIVE CollapseStr(_, _, _)
\* ' '.join(s.split()) over one literal: `started` = a word came before,
\* `pending` = white space was seen since that word
CollapseStr(s, started, pending) ==
    IF s = "" THEN [out |-> "", started |-> started, pending |-> pending]
    ELSE IF Head(s) \in Whitespace THEN CollapseStr(Tail(s), started, started)
    ELSE LET r == CollapseStr(Tail(s), TRUE, FALSE) IN
         [r EXCEPT !.out = (IF pending THEN " " ELSE "") \o Head(s) \o r.out]

RECURSIVE CollapseText(_, _, _)
CollapseText(t, started, pending) ==
    IF t = <<>> THEN <<>>
    ELSE IF t[1].n = 0 THEN CollapseText(Tail(t), started, pending)
    ELSE IF t[1].n = 1
    THEN LET r == CollapseStr(t[1].s, started, pending) IN
         T(r.out) \o CollapseText(Tail(t), r.started, r.pending)
    ELSE (IF pending THEN T(" ") ELSE <<>>) \o <<t[1]>> \o CollapseText(Tail(t), TRUE, FALSE)

\* `get`: what session.get, raise_for_status and the HTML parser do when called
scrape_article(u, get) ==
    IF get.kind = "timeout"
    THEN ErrorResult("Request timed out. Website took too long to respond.", u)
    ELSE IF get.kind = "connection_error"
    THEN ErrorResult("Connection error. Unable to reach the website.", u)
    ELSE IF get.kind = "exception"
    THEN ErrorResult("Failed to scrape article: " \o Prefix(get.text, 100), u)
    ELSE LET text == CollapseText(get.visible, FALSE, FALSE)
             title == IF get.has_title THEN get.title ELSE JStr(T("No title"))
         IN IF TextLen(text) < MIN_ARTICLE_LENGTH
            THEN ErrorResult("Article content too short or unable to extract text", u)
            ELSE [status |-> "success", title |-> title, content |-> text,
                  url |-> u, type |-> "article"]

\* the outbound call extract_content(url) makes, if any
Outbound(u, api_key) ==
    IF u = "" THEN "none"
    ELSE IF is_youtube_url(StripStr(u))
    THEN (IF extract_youtube_id(StripStr(u)) # "" /\ api_key THEN "transcript" ELSE "none")
    ELSE "web"

NoCall == [kind |-> "no call"]

\* `answer`: what the service called does (NoCall when none is called)
extract_content(u, api_key, answer) ==
    IF u = "" THEN [status |-> "error", message |-> "Invalid URL provided"]
    ELSE IF is_youtube_url(StripStr(u))
    THEN get_youtube_transcript(StripStr(u), api_key, answer)
    ELSE scrape_article(StripStr(u), answer)

(***************************************************************************)
(* Summarizer (src/modules/summarizer.py)                                  *)
(***************************************************************************)
MIN_CONTENT_LENGTH == 100

ModelNames == [google |-> "google-gemini-2.5-flash", openai |-> "openai-gpt3.5"]

\* summarize_with_google / summarize_with_openai: `backend` is what the model call does
summarize_with_backend(model_type, backend) ==
    IF backend.kind = "exception"
    THEN [status |-> "error", message |-> "Summarization failed: " \o backend.text]
    ELSE [status |-> "success", summary |-> backend.reply, model |-> ModelNames[model_type]]

\* the summarizer calls a backend
SummarizerCalls(content, model_type) ==
    TextLen(content) >= MIN_CONTENT_LENGTH /\ model_type \in DOMAIN ModelNames

summarize(content, model_type, backend) ==
    IF TextLen(content) = 0 \/ TextLen(content) < MIN_CONTENT_LENGTH
    THEN [status |-> "error", message |-> "Content too short for summarization"]
    ELSE IF model_type \in DOMAIN ModelNames
    THEN summarize_with_backend(model_type, backend)
    ELSE [status |-> "error", message |-> "Unknown model type"]

(***************************************************************************)
(* Quiz generator (src/modules/quiz_generator.py)                          *)
(***************************************************************************)
\* lines 69-76: the reply without its code fence parses as JSON.  A reply is
\* [fenced, tag, doc]: a fence with its language tag around a document.
ReplyParses(reply) ==
    /\ reply.doc.valid
    /\ IF reply.fenced THEN reply.tag \in {"", "json"} ELSE reply.tag = ""

\* generate_with_google / generate_with_openai
generate_with_backend(model_type, backend) ==
    IF backend.kind = "exception"
    THEN [status |-> "error", message |-> "Quiz generation failed: " \o backend.text]
    ELSE IF ~ReplyParses(backend)
    THEN [status |-> "error", message |-> "Failed to parse quiz format"]
    ELSE LET quiz_data == backend.doc.data IN
         IF quiz_data.t # "dict"
         THEN [status |-> "error",
               message |-> "Quiz generation failed: '" \o PyTypeName(quiz_data)
                              \o "' object has no attribute 'get'"]
         ELSE [status |-> "success",
               quiz |-> IF "questions" \in DOMAIN quiz_data.fields
                        THEN quiz_data.fields["questions"] ELSE JList(<<>>),
               model |-> ModelNames[model_type]]

GeneratorCalls(model_type) == model_type \in DOMAIN ModelNames

generate(summary, content, model_type, backend) ==
    IF model_type \in DOMAIN ModelNames
    THEN generate_with_backend(model_type, backend)
    ELSE [status |-> "error", message |-> "Unknown model type"]

(***************************************************************************)
(* Inputs of the guardrail calls                                           *)
(***************************************************************************)
MaxUrlPieces == 2
MaxQuestions == 2
Slack == 22

UrlPieces ==
    {"", " ", "https://", "http://x.org/?u=", "example.com", "alert(1)", "/a?b=data",
     "javascript:", "JavaScript:", "JAVASCRIPT:", "java script:", "javascript",
     "data:", "DATA:", "Data:", "vbscript:", "VBScript:", "vbscript;", ":"}

RECURSIVE UrlsOf(_)
UrlsOf(k) == IF k = 0 THEN {""} ELSE {a \o b : a \in UrlsOf(k - 1), b \in UrlPieces}

UrlInputs == UrlsOf(MaxUrlPieces)

\* spellings of the deny-list keywords of validate_summary
KeywordSpellings ==
    {"violence", "VIOLENCE", "Violence", "vIoLeNcE", "hate", "HATE", "adult content",
     "Adult Content", "explicit", "EXPLICIT", "drugs", "Drugs", "weapons", "WEAPONS",
     "illegal", "Illegal"}
\* words that hold no deny-list keyword, whatever Surroundings they stand in
CleanWords ==
    {"", "violent", "VIOLENC E", "adultcontent", "hat e", "drug", "weapon", "legal",
     "a good summary"}
LeftSurroundings == {"", "no "}
RightSurroundings == {"", " here"}
PadSizes ==
    {0} \cup {MIN_SUMMARY_LENGTH + d : d \in (0 - Slack)..1}
        \cup {MAX_SUMMARY_LENGTH + d : d \in (0 - Slack)..1}

MkSummary(pre, left, word, right, post) ==
    Pad(pre) \o T(left \o word \o right) \o Pad(post)

SummaryInputs ==
    {[fn |-> "validate_summary", summary |-> MkSummary(pre, left, w, right, post),
      pre |-> pre, left |-> left, word |-> w, right |-> right, post |-> post] :
        pre \in PadSizes, left \in LeftSurroundings,
        w \in KeywordSpellings \cup CleanWords, right \in RightSurroundings, post \in {0, 1}}

FieldValue(k) ==
    CASE k = "id" -> JNum(1)
      [] k = "question" -> JStr(T("q?"))
      [] k = "options" -> JList(<<JStr(T("a")), JStr(T("b"))>>)
      [] k = "correct_answer" -> JBool(TRUE)
      [] OTHER -> JStr(T("because"))

AllFields == {"id", "question", "options", "correct_answer", "explanation"}
FieldSets ==
    {AllFields, {"id", "question", "correct_answer"}} \cup
    {AllFields \ {k} : k \in {"id", "question", "options", "correct_answer"}}

Absent == [t |-> "absent"]
TypeValues ==
    {JStr(T("multiple_choice")), JStr(T("true_false")), JStr(T("fill_blank")),
     JStr(T("essay")), Absent, JNull, JList(<<>>)}

MkQuestion(type, fields) ==
    JDict([k \in fields \cup (IF type = Absent THEN {} ELSE {"type"}) |->
              IF k = "type" THEN type ELSE FieldValue(k)])

Questions == {MkQuestion(ty, fs) : ty \in TypeValues, fs \in FieldSets}
NonQuestions == {JStr(T("abc")), JNull, JNum(1)}

RECURSIVE ListsOf(_, _)
ListsOf(S, k) ==
    IF k = 0 THEN {<<>>} ELSE ListsOf(S, k - 1) \cup {Append(l, x) : l \in ListsOf(S, k - 1), x \in S}

\* values that are no list
NonLists ==
    {JNull, JNum(0), JNum(5), JBool(TRUE), JBool(FALSE), JStr(<<>>), JStr(T("abc")),
     JDict(EmptyFields), MkQuestion(JStr(T("true_false")), AllFields)}

QuizInputs == {JList(l) : l \in ListsOf(Questions \cup NonQuestions, MaxQuestions)} \cup NonLists

GuardrailCalls ==
    {[fn |-> "validate_url", url |-> u] : u \in UrlInputs}
    \cup SummaryInputs
    \cup {[fn |-> "validate_quiz", quiz |-> q] : q \in QuizInputs}

(***************************************************************************)
(* Inputs of process_url: requests and what the collaborators answer       *)
(***************************************************************************)
MaxQuiz == 2

RequestUrls ==
    {"", "  ", "https://example.com/article", " https://example.com/article\n",
     "javascript:alert(1)", "https://example.com/?next=data:text",
     "https://www.youtube.com/watch?v=abc123", "https://youtu.be/abc123",
     " https://www.youtube.com/embed/abc123 ", "https://www.youtube.com/",
     "youtube.com/playlist?list=1", "https://vimeo.com/1"}

UrlValue(u) == [t |-> "url", u |-> u]

\* request.get_json(): it raises, or yields the parsed body
Requests ==
    {[kind |-> "bad_json"], [kind |-> "not_object", data |-> JNull],
     [kind |-> "not_object", data |-> JList(<<>>)]}
    \cup {[kind |-> "object", url |-> v] :
            v \in {Absent, JNull, JNum(5)} \cup {UrlValue(u) : u \in RequestUrls}}

\* config.py line 19; main.py lines 27-28 build both LLM stages with it
SUMMARIZATION_MODEL == "google"

\* the transcript API key comes from the environment (config.py line 16)
Configs == [api_key : BOOLEAN, model : {SUMMARIZATION_MODEL}]

Obj1(k, v) == JDict([x \in {k} |-> v])
Obj2(k1, v1, k2, v2) == JDict([x \in {k1, k2} |-> IF x = k1 THEN v1 ELSE v2])
Fragment(k) == Obj2("text", JStr(Pad(k)), "start", JNum(0))

TranscriptItems ==
    {Obj1("text", JStr(Pad(k))) : k \in {0, 49, 50, 99, 100, 150}}
    \cup {Obj1("text", JStr(T("  ") \o Pad(49) \o T(" \n"))),
          Obj1("text", JNum(5)),
          Obj2("text", JNull, "content", JStr(Pad(150))),
          Obj2("text", JStr(Pad(60)), "content", JStr(Pad(150))),
          Obj2("text", JStr(<<>>), "tracks",
               JList(<<Obj1("transcript", JList(<<Fragment(150)>>))>>)),
          Obj1("tracks", JList(<<Obj1("transcript",
                                      JList(<<Fragment(30), JStr(T("x")), Fragment(30)>>))>>)),
          Obj1("tracks", JList(<<Obj1("transcript", JList(<<Fragment(60), Fragment(60)>>))>>)),
          Obj1("tracks", JList(<<Obj1("transcript", JNull)>>)),
          Obj1("tracks", JList(<<>>)),
          Obj2("tracks", JList(<<>>), "content", JStr(Pad(150))),
          JStr(Pad(150)),
          Obj1("content", JStr(Pad(150))),
          Obj1("id", JStr(T("abc123")))}

TranscriptStatuses == {200, 401, 404, 429, 500}

TranscriptWorlds ==
    {[kind |-> "timeout"],
     [kind |-> "exception", text |-> "Connection refused"],
     [kind |-> "exception", text |-> "Subtitles are DISABLED for this video"],
     [kind |-> "exception", text |-> "Video Not Found"]}
    \cup {[kind |-> "response", status |-> s, body |-> [valid |-> FALSE]] :
            s \in TranscriptStatuses}
    \cup {[kind |-> "response", status |-> s, body |-> [valid |-> TRUE, data |-> d]] :
            s \in {200, 404},
            d \in {JNull, Obj1("error", JStr(T("no captions"))), JList(<<>>)}
                  \cup {JList(<<i>>) : i \in TranscriptItems}}

ArticleWorlds ==
    {[kind |-> "timeout"], [kind |-> "connection_error"],
     [kind |-> "exception", text |-> "404 Client Error: Not Found for url"]}
    \cup {[kind |-> "page", visible |-> v, has_title |-> h[1], title |-> h[2]] :
            v \in {<<>>, Pad(99), Pad(100), Pad(150), T("word  ") \o Pad(98),
                   T("  a \n ") \o Pad(97) \o T("  ")},
            h \in {<<TRUE, JStr(T("Example Domain"))>>, <<TRUE, JNull>>, <<FALSE, JNull>>}}

WorldsFor(outbound) ==
    CASE outbound = "transcript" -> TranscriptWorlds
      [] outbound = "web" -> ArticleWorlds
      [] OTHER -> {NoCall}

SummaryBackends ==
    {[kind |-> "exception", text |-> "quota exceeded"]}
    \cup {[kind |-> "text", reply |-> t] :
            t \in {<<>>, Pad(MIN_SUMMARY_LENGTH - 1), Pad(MIN_SUMMARY_LENGTH),
                   T("A good summary. ") \o Pad(150), Pad(150) \o T(" about Violence."),
                   Pad(MAX_SUMMARY_LENGTH), Pad(MAX_SUMMARY_LENGTH + 1)}}

PipelineQuestions ==
    {MkQuestion(JStr(T("multiple_choice")), AllFields),
     MkQuestion(JStr(T("true_false")), {"id", "question", "correct_answer"}),
     MkQuestion(JStr(T("multiple_choice")), AllFields \ {"options"}),
     MkQuestion(JStr(T("essay")), AllFields),
     MkQuestion(JList(<<>>), AllFields),
     JNum(1)}

PipelineQuizzes == {JList(l) : l \in ListsOf(PipelineQuestions, MaxQuiz)} \cup NonLists

QuizDocs ==
    {[valid |-> FALSE]}
    \cup {[valid |-> TRUE, data |-> d] :
            d \in {JList(<<>>), JDict(EmptyFields)}
                  \cup {Obj1("questions", q) : q \in PipelineQuizzes}}

QuizBackends ==
    {[kind |-> "exception", text |-> "model overloaded"]}
    \cup {[kind |-> "reply", fenced |-> f[1], tag |-> f[2], doc |-> d] :
            f \in {<<FALSE, "">>, <<TRUE, "">>, <<TRUE, "json">>, <<TRUE, "JSON">>},
            d \in QuizDocs}

(***************************************************************************)
(* process_url (src/main.py)                                               *)
(***************************************************************************)
NoRequest == [kind |-> "none"]
NoResult == [status |-> "none"]
NoResponse == [code |-> 0, body |-> NoResult]

\* the locals of process_url before a request
Idle ==
    /\ request = NoRequest
    /\ url = ""
    /\ url_check = NotCalled
    /\ world = NoCall
    /\ extraction_result = NoResult
    /\ summary_result = NoResult
    /\ summary_check = NotCalled
    /\ quiz_result = NoResult
    /\ quiz_check = NotCalled
    /\ response = NoResponse
    /\ calls = <<>>
    /\ logged = <<>>

locals == <<config, request, url, url_check, world, extraction_result, summary_result,
            summary_check, quiz_result, quiz_check, response, calls, logged>>

Init ==
    /\ pc = "idle"
    /\ config \in Configs
    /\ Idle
    /\ arg = [fn |-> "none"]
    /\ ret = NotCalled

ErrorBody(message) == [status |-> "error", message |-> message]
Reply(code, body) == [code |-> code, body |-> body]

\* line 45
UrlRequired == Reply(400, ErrorBody("URL is required"))
\* line 49
UnsafeUrl(msg) == Reply(400, ErrorBody(msg))
\* line 56
ExtractionFailed(result) == Reply(400, result)
\* line 67
SummarizationFailed(result) == Reply(500, result)
\* line 75
SummaryRejected(msg) == Reply(400, ErrorBody(msg))
\* the quiz generator's failure answered as a client error
QuizGenerationFailed_as_400(result) == Reply(400, result)
\* line 82
QuizGenerationFailed(result) == Reply(500, result)
\* lines 93-102
Success(title, content_type, summary, quiz, u) ==
    Reply(200, [status |-> "success",
                data |-> [title |-> title, content_type |-> content_type,
                          summary |-> summary, quiz |-> quiz, url |-> u]])
\* the exception's text sent to the client
InternalError_leaking(exc) == Reply(500, ErrorBody(exc))
\* line 106: the answer to an exception whose text is exc
InternalError(exc) == Reply(500, ErrorBody("Internal server error"))

Log(level, msg) == [level |-> level, msg |-> msg]

\* the handler returns
Return(resp) == response' = resp /\ pc' = "done"
\* lines 104-106: an exception reaches the handler's except clause
Fail(exc, log) ==
    /\ Return(InternalError(exc))
    /\ logged' = Append(log, Log("error", "Unexpected error in process_url: " \o exc))

\* a request arrives
Receive ==
    /\ pc = "idle"
    /\ request' \in Requests
    /\ pc' = "parse"
    /\ UNCHANGED <<config, url, url_check, world, extraction_result, summary_result,
                   summary_check, quiz_result, quiz_check, response, calls, logged, arg, ret>>

\* lines 40-45
ParseRequest ==
    /\ pc = "parse"
    /\ IF request.kind = "bad_json"
       THEN Fail("400 Bad Request: Failed to decode JSON object", logged) /\ UNCHANGED url
       ELSE IF request.kind = "not_object"
       THEN /\ Fail("'" \o PyTypeName(request.data) \o "' object has no attribute 'get'", logged)
            /\ UNCHANGED url
       ELSE IF request.url.t \notin {"absent", "url"}
       THEN /\ Fail("'" \o PyTypeName(request.url) \o "' object has no attribute 'strip'", logged)
            /\ UNCHANGED url
       ELSE LET u == StripStr(IF request.url.t = "absent" THEN "" ELSE request.url.u) IN
            /\ url' = u
            /\ IF u = "" THEN Return(UrlRequired) ELSE pc' = "validate_url" /\ UNCHANGED response
            /\ UNCHANGED logged
    /\ UNCHANGED <<config, request, url_check, world, extraction_result, summary_result,
                   summary_check, quiz_result, quiz_check, calls, arg, ret>>

\* lines 47-51 with the verdict of validate_url ignored
ValidateUrl_ignoring_verdict ==
    /\ pc = "validate_url"
    /\ calls' = Append(calls, "validate_url")
    /\ url_check' = validate_url(url)
    /\ pc' = "extract"
    /\ UNCHANGED <<config, request, url, world, extraction_result, summary_result,
                   summary_check, quiz_result, quiz_check, response, logged, arg, ret>>

\* lines 47-51
ValidateUrl ==
    /\ pc = "validate_url"
    /\ calls' = Append(calls, "validate_url")
    /\ url_check' = validate_url(url)
    /\ IF ~url_check'.ok THEN Return(UnsafeUrl(url_check'.msg))
       ELSE pc' = "extract" /\ UNCHANGED response
    /\ UNCHANGED <<config, request, url, world, extraction_result, summary_result,
                   summary_check, quiz_result, quiz_check, logged, arg, ret>>

\* lines 54-62
Extract ==
    /\ pc = "extract"
    /\ calls' = Append(calls, "extract_content")
    /\ \E w \in WorldsFor(Outbound(url, config.api_key)) :
        /\ world' = w
        /\ extraction_result' = extract_content(url, config.api_key, w)
    /\ IF extraction_result'.status # "success" THEN Return(ExtractionFailed(extraction_result'))
       ELSE pc' = "summarize" /\ UNCHANGED response
    /\ UNCHANGED <<config, request, url, url_check, summary_result,
                   summary_check, quiz_result, quiz_check, logged, arg, ret>>

\* lines 65-69
Summarize ==
    /\ pc = "summarize"
    /\ calls' = Append(calls, "summarize")
    /\ LET content == extraction_result.content IN
       \E b \in IF SummarizerCalls(content, config.model) THEN SummaryBackends ELSE {NoCall} :
           summary_result' = summarize(content, config.model, b)
    /\ IF summary_result'.status # "success" THEN Return(SummarizationFailed(summary_result'))
       ELSE pc' = "validate_summary" /\ UNCHANGED response
    /\ UNCHANGED <<config, request, url, url_check, world, extraction_result,
                   summary_check, quiz_result, quiz_check, logged, arg, ret>>

\* lines 72-77 with a rejected summary only logged, as lines 87-89 do for the quiz
ValidateSummary_log_only ==
    /\ pc = "validate_summary"
    /\ calls' = Append(calls, "validate_summary")
    /\ summary_check' = validate_summary(summary_result.summary)
    /\ logged' = IF summary_check'.ok THEN logged
                 ELSE Append(logged, Log("warning", "Summary validation failed: "
                                                        \o summary_check'.msg))
    /\ pc' = "generate"
    /\ UNCHANGED <<config, request, url, url_check, world, extraction_result, summary_result,
                   quiz_result, quiz_check, response, arg, ret>>

\* lines 72-77
ValidateSummary ==
    /\ pc = "validate_summary"
    /\ calls' = Append(calls, "validate_summary")
    /\ summary_check' = validate_summary(summary_result.summary)
    /\ IF ~summary_check'.ok
       THEN /\ logged' = Append(logged, Log("warning", "Summary validation failed: "
                                                            \o summary_check'.msg))
            /\ Return(SummaryRejected(summary_check'.msg))
       ELSE pc' = "generate" /\ UNCHANGED <<response, logged>>
    /\ UNCHANGED <<config, request, url, url_check, world, extraction_result, summary_result,
                   quiz_result, quiz_check, arg, ret>>

\* lines 80-84
GenerateQuiz ==
    /\ pc = "generate"
    /\ calls' = Append(calls, "generate")
    /\ \E b \in IF GeneratorCalls(config.model) THEN QuizBackends ELSE {NoCall} :
           quiz_result' = generate(summary_result.summary, extraction_result.content,
                                   config.model, b)
    /\ IF quiz_result'.status # "success" THEN Return(QuizGenerationFailed(quiz_result'))
       ELSE pc' = "validate_quiz" /\ UNCHANGED response
    /\ UNCHANGED <<config, request, url, url_check, world, extraction_result, summary_result,
                   summary_check, quiz_check, logged, arg, ret>>

\* lines 87-102
ValidateQuiz ==
    /\ pc = "validate_quiz"
    /\ calls' = Append(calls, "validate_quiz")
    /\ quiz_check' = validate_quiz(quiz_result.quiz)
    /\ IF quiz_check'.raised THEN Fail(quiz_check'.exc, logged)
       ELSE LET log == IF quiz_check'.ok THEN logged
                       ELSE Append(logged, Log("warning", "Quiz validation failed: "
                                                              \o quiz_check'.msg))
            IN IF ~Sized(quiz_result.quiz)
               THEN \* line 91: len(quiz)
                    Fail("object of type '" \o PyTypeName(quiz_result.quiz) \o "' has no len()", log)
               ELSE /\ logged' = log
                    /\ Return(Success(extraction_result.title, extraction_result.type,
                                      summary_result.summary, quiz_result.quiz, url))
    /\ UNCHANGED <<config, request, url, url_check, world, extraction_result, summary_result,
                   summary_check, quiz_result, arg, ret>>

Next ==
    \/ Receive
    \/ ParseRequest
    \/ ValidateUrl
    \/ Extract
    \/ Summarize
    \/ ValidateSummary
    \/ GenerateQuiz
    \/ ValidateQuiz

Spec == Init /\ [][Next]_vars

(***************************************************************************)
(* Unit level: one guardrail call on one argument                          *)
(***************************************************************************)
InitGuardrails ==
    /\ pc = "call"
    /\ config = [api_key |-> TRUE, model |-> SUMMARIZATION_MODEL]
    /\ Idle
    /\ arg \in GuardrailCalls
    /\ ret = NotCalled

CallValidateUrl ==
    /\ pc = "call" /\ arg.fn = "validate_url"
    /\ ret' = validate_url(arg.url)
    /\ pc' = "returned"
    /\ UNCHANGED <<locals, arg>>

CallValidateSummary ==
    /\ pc = "call" /\ arg.fn = "validate_summary"
    /\ ret' = validate_summary(arg.summary)
    /\ pc' = "returned"
    /\ UNCHANGED <<locals, arg>>

CallValidateQuiz ==
    /\ pc = "call" /\ arg.fn = "validate_quiz"
    /\ ret' = validate_quiz(arg.quiz)
    /\ pc' = "returned"
    /\ UNCHANGED <<locals, arg>>

NextGuardrails == CallValidateUrl \/ CallValidateSummary \/ CallValidateQuiz

SpecGuardrails == InitGuardrails /\ [][NextGuardrails]_vars

(***************************************************************************)
(* Unit level: one call of WebScraper.extract_content on one URL           *)
(***************************************************************************)
UrlSchemes == {"", "https://", "HTTPS://", "ftp://"}
UrlPrefixes == {"", "www.", "m."}
UrlNames == {"youtube", "youtu", "youtube-nocookie", "vimeo"}
UrlDomains == {".com", ".be"}
UrlTails == {"", "/", "/watch?v=abc123", "/abc123", "/embed/abc123?t=1", ".evil.org/"}

ScraperUrls ==
    {s \o p \o n \o d \o t :
        s \in UrlSchemes, p \in UrlPrefixes, n \in UrlNames, d \in UrlDomains, t \in UrlTails}
    \cup RequestUrls
    \cup {" https://youtu.be/abc123\n", "https://example.com/youtube.com/"}

ExtractCalls == {[fn |-> "extract_content", url |-> u] : u \in ScraperUrls}

\* line 254: session.get refuses a URL without an http(s) scheme, whatever the site
ScrapeWorlds(u) ==
    LET scheme == LowerStr(u) IN
    IF StartsWithAt(scheme, 1, "http://") \/ StartsWithAt(scheme, 1, "https://")
    THEN ArticleWorlds
    ELSE {[kind |-> "exception", text |-> "Invalid URL: No scheme supplied"]}

InitScraper ==
    /\ pc = "call"
    /\ config \in Configs
    /\ Idle
    /\ arg \in ExtractCalls
    /\ ret = NoResult

untouched ==
    <<config, request, url_check, extraction_result, summary_result, summary_check,
      quiz_result, quiz_check, response, logged, arg>>

\* lines 311-319: the argument is checked, stripped and classified
Classify ==
    /\ pc = "call" /\ arg.fn = "extract_content"
    /\ IF arg.url = ""
       THEN /\ ret' = [status |-> "error", message |-> "Invalid URL provided"]
            /\ pc' = "returned"
            /\ url' = url
       ELSE /\ url' = StripStr(arg.url)
            /\ pc' = IF is_youtube_url(url') THEN "video" ELSE "article"
            /\ ret' = ret
    /\ UNCHANGED <<untouched, world, calls>>

\* line 320
GetYoutubeTranscript ==
    /\ pc = "video"
    /\ calls' = Append(calls, "get_youtube_transcript")
    /\ \E w \in WorldsFor(Outbound(url, config.api_key)) :
        /\ world' = w
        /\ ret' = get_youtube_transcript(url, config.api_key, w)
    /\ pc' = "returned"
    /\ UNCHANGED <<untouched, url>>

\* line 322
ScrapeArticle ==
    /\ pc = "article"
    /\ calls' = Append(calls, "scrape_article")
    /\ \E w \in ScrapeWorlds(url) :
        /\ world' = w
        /\ ret' = scrape_article(url, w)
    /\ pc' = "returned"
    /\ UNCHANGED <<untouched, url>>

NextScraper == Classify \/ GetYoutubeTranscript \/ ScrapeArticle

SpecScraper == InitScraper /\ [][NextScraper]_vars

(***************************************************************************)
(* Unit level: one call of QuizGenerator.generate, the reply as a text     *)
(***************************************************************************)
\* str.find: the first position of `sub` in s, 0 if there is none
Find(sub, s) ==
    LET hits == {i \in 1..Len(s) : StartsWithAt(s, i, sub)} IN
    IF hits = {} THEN 0 ELSE SetMin(hits)

\* the fence of a code block: three backquotes in the source, three quotes here
\* (the string syntax has no backquote)
Fence == "'''"

\* lines 67-74: strip(), then the text between a leading fence and the next one,
\* without a leading 'json', stripped
Unfence(text) ==
    LET response_text == StripStr(text) IN
    IF StartsWithAt(response_text, 1, Fence)
    THEN LET rest == SubSeq(response_text, 4, Len(response_text))
             k == Find(Fence, rest)
             block == IF k = 0 THEN rest ELSE SubSeq(rest, 1, k - 1)
             body == IF StartsWithAt(block, 1, "json")
                     THEN SubSeq(block, 5, Len(block)) ELSE block
         IN StripStr(body)
    ELSE response_text

\* the JSON documents of the replies below and their values
JsonDocs ==
    {<<"{}", JDict(EmptyFields)>>,
     <<"[]", JList(<<>>)>>,
     <<"null", JNull>>,
     <<"5", JNum(5)>>,
     <<"{\"questions\": []}", Obj1("questions", JList(<<>>))>>,
     <<"{\"questions\": null}", Obj1("questions", JNull)>>,
     <<"{\"questions\": [{\"id\": 1}]}", Obj1("questions", JList(<<Obj1("id", JNum(1))>>))>>,
     <<"{\"quiz\": []}", Obj1("quiz", JList(<<>>))>>}

\* texts that are no JSON
NoJson == {"", "{\"questions\": [", "Sorry, I cannot help with that."}

\* line 76: json.loads on the texts that can reach it here; any other text that
\* does (a document behind a language tag or a preamble) is no JSON
json_loads(s) ==
    IF \E d \in JsonDocs : d[1] = StripStr(s)
    THEN [valid |-> TRUE, data |-> (CHOOSE d \in JsonDocs : d[1] = StripStr(s))[2]]
    ELSE [valid |-> FALSE]

\* generate_with_google / generate_with_openai on the text of the reply
generate_with_model(model_type, backend) ==
    IF backend.kind = "exception"
    THEN [status |-> "error", message |-> "Quiz generation failed: " \o backend.text]
    ELSE generate_with_backend(model_type,
             [kind |-> "reply", fenced |-> FALSE, tag |-> "",
              doc |-> json_loads(Unfence(backend.text))])

Wrappers == {"plain", "padded", "fence", "json", "tight", "open", "JSON", "python", "preamble"}

\* a reply of the model: the document d in the wrapper w
Wrap(w, d) ==
    CASE w = "plain" -> d
      [] w = "padded" -> " \n" \o d \o "\n"
      [] w = "fence" -> Fence \o "\n" \o d \o "\n" \o Fence
      [] w = "json" -> Fence \o "json\n" \o d \o "\n" \o Fence
      [] w = "tight" -> Fence \o "json" \o d \o Fence
      [] w = "open" -> Fence \o "json\n" \o d
      [] w = "JSON" -> Fence \o "JSON\n" \o d \o "\n" \o Fence
      [] w = "python" -> Fence \o "python\n" \o d \o "\n" \o Fence
      [] w = "preamble" -> "Here is the quiz:\n" \o Fence \o "json\n" \o d \o "\n" \o Fence

ModelReplies ==
    {[kind |-> "exception", text |-> "model overloaded"]}
    \cup {[kind |-> "text", text |-> Wrap(w, d), wrapper |-> w, doc |-> d] :
            w \in Wrappers, d \in {x[1] : x \in JsonDocs} \cup NoJson}

ModelTypes == {"google", "openai", "ollama"}

InitQuizGenerator ==
    /\ pc = "call"
    /\ config \in Configs
    /\ Idle
    /\ arg \in {[fn |-> "generate", model_type |-> m] : m \in ModelTypes}
    /\ ret = NoResult

\* lines 157-165
Dispatch ==
    /\ pc = "call" /\ arg.fn = "generate"
    /\ IF arg.model_type \in {"google", "openai"}
       THEN pc' = arg.model_type /\ ret' = ret
       ELSE pc' = "returned" /\ ret' = generate(<<>>, <<>>, arg.model_type, NoCall)
    /\ UNCHANGED <<untouched, url, world, calls>>

\* lines 23-96
GenerateWithGoogle ==
    /\ pc = "google"
    /\ calls' = Append(calls, "model.generate_content")
    /\ \E b \in ModelReplies :
        /\ world' = b
        /\ ret' = generate_with_model(arg.model_type, b)
    /\ pc' = "returned"
    /\ UNCHANGED <<untouched, url>>

\* lines 98-153
GenerateWithOpenAI ==
    /\ pc = "openai"
    /\ calls' = Append(calls, "client.chat.completions.create")
    /\ \E b \in ModelReplies :
        /\ world' = b
        /\ ret' = generate_with_model(arg.model_type, b)
    /\ pc' = "returned"
    /\ UNCHANGED <<untouched, url>>

NextQuizGenerator == Dispatch \/ GenerateWithGoogle \/ GenerateWithOpenAI

SpecQuizGenerator == InitQuizGenerator /\ [][NextQuizGenerator]_vars

(***************************************************************************)
(* Properties of the guardrails (checked under SpecGuardrails)             *)
(***************************************************************************)
\* the length of a summary argument, from the way it was put together
BuiltLength(a) == a.pre + Len(a.left) + Len(a.word) + Len(a.right) + a.post

\* C8: validate_summary rejects every summary shorter than MIN_SUMMARY_LENGTH or
\* longer than MAX_SUMMARY_LENGTH, accepts every summary whose length is between
\* the bounds (inclusive) and that holds no deny-list keyword, and rejects every
\* summary holding a deny-list keyword in any letter case, whatever surrounds it.
C8_ValidateSummary ==
    (pc = "returned" /\ arg.fn = "validate_summary") =>
        LET len == BuiltLength(arg) IN
        /\ ~ret.raised
        /\ (len < MIN_SUMMARY_LENGTH \/ len > MAX_SUMMARY_LENGTH) => ~ret.ok
        /\ (/\ MIN_SUMMARY_LENGTH <= len
            /\ len <= MAX_SUMMARY_LENGTH
            /\ arg.word \in CleanWords) => ret.ok
        /\ arg.word \in KeywordSpellings => ~ret.ok

\* a summary of admissible length with an upper-case keyword between other words is rejected
C8_Witness ==
    /\ pc = "returned" /\ arg.fn = "validate_summary"
    /\ arg.word = "VIOLENCE" /\ arg.left = "no " /\ arg.right = " here"
    /\ BuiltLength(arg) = MAX_SUMMARY_LENGTH
    /\ ret = Verdict(FALSE, "Content contains inappropriate material")

\* summaries of exactly the minimal and the maximal length are accepted
C8_WitnessBounds ==
    /\ pc = "returned" /\ arg.fn = "validate_summary"
    /\ BuiltLength(arg) \in {MIN_SUMMARY_LENGTH, MAX_SUMMARY_LENGTH}
    /\ ret.ok

\* what the data model asks of a question: a known type and the fields of that type
RequiredOf(name) ==
    {"id", "question", "correct_answer"} \cup (IF name = "multiple_choice" THEN {"options"} ELSE {})

HasKnownType(q) ==
    /\ "type" \in DOMAIN q.fields
    /\ q.fields["type"] \in
         {JStr(T("multiple_choice")), JStr(T("true_false")), JStr(T("fill_blank"))}

WellFormed(q) ==
    /\ HasKnownType(q)
    /\ RequiredOf(Skeleton(q.fields["type"].s)) \subseteq DOMAIN q.fields

\* a list whose elements are all JSON objects
QuestionList(j) == j.t = "list" /\ \A i \in 1..Len(j.items) : j.items[i].t = "dict"

\* C9: validate_quiz rejects an empty list, rejects any list with a question of
\* unknown type, rejects any list with a question lacking a field its type
\* requires, and accepts every non-empty list of questions that each have a
\* known type and all required fields.
C9_ValidateQuiz ==
    (pc = "returned" /\ arg.fn = "validate_quiz" /\ QuestionList(arg.quiz)) =>
        /\ ~ret.raised
        /\ ret.ok <=> (/\ Len(arg.quiz.items) > 0
                       /\ \A i \in 1..Len(arg.quiz.items) : WellFormed(arg.quiz.items[i]))

\* C9 on the lists in which every question's type value can be hashed
\* (a string, a number, a boolean, null or absent)
C9_HashableTypes ==
    (/\ pc = "returned" /\ arg.fn = "validate_quiz" /\ QuestionList(arg.quiz)
     /\ \A i \in 1..Len(arg.quiz.items) : Hashable(QuestionType(arg.quiz.items[i]))) =>
        /\ ~ret.raised
        /\ ret.ok <=> (/\ Len(arg.quiz.items) > 0
                       /\ \A i \in 1..Len(arg.quiz.items) : WellFormed(arg.quiz.items[i]))

\* the minimal true_false question is accepted
C9_MinimalTrueFalse ==
    /\ pc = "returned" /\ arg.fn = "validate_quiz"
    /\ arg.quiz = JList(<<MkQuestion(JStr(T("true_false")), {"id", "question", "correct_answer"})>>)
    /\ ret = Verdict(TRUE, "Quiz passed validation")

\* C10: validate_url rejects a URL exactly when its lower-cased text holds
\* "javascript:", "data:" or "vbscript:" at any position; it rejects
\* "javascript:alert(1)" and accepts "https://example.com".
C10_ValidateUrl ==
    (pc = "returned" /\ arg.fn = "validate_url") =>
        /\ ~ret.raised
        /\ ~ret.ok <=>
             \E p \in {"javascript:", "data:", "vbscript:"} :
                \E i \in 1..Len(arg.url) :
                    /\ i + Len(p) - 1 <= Len(arg.url)
                    /\ LowerStr(SubSeq(arg.url, i, i + Len(p) - 1)) = p
        /\ arg.url = "javascript:alert(1)" => ~ret.ok
        /\ arg.url = "https://example.com" => ret.ok

\* a URL with an upper-case "DATA:" behind its scheme is rejected
C10_Witness ==
    /\ pc = "returned" /\ arg.fn = "validate_url"
    /\ arg.url = "http://x.org/?u=DATA:"
    /\ ret = Verdict(FALSE, "Unsafe URL protocol detected")

(***************************************************************************)
(* Properties of process_url (checked under Spec)                          *)
(***************************************************************************)
\* the request carries a URL that is a string, or none (the default '')
HasTextUrl == request.kind = "object" /\ request.url.t \in {"absent", "url"}
RequestedUrl == IF request.url.t = "absent" THEN "" ELSE request.url.u

\* empty or white space only
Blank(s) == \A i \in 1..Len(s) : CharAt(s, i) \in Whitespace

Invoked(name) == \E i \in 1..Len(calls) : calls[i] = name

\* the handler has returned an error body with this message, and `stage` was the last call
EndedAt(stage, message) ==
    /\ pc = "done"
    /\ calls[Len(calls)] = stage
    /\ response.body.status = "error"
    /\ response.body.message = message

Pipeline ==
    <<"validate_url", "extract_content", "summarize", "validate_summary", "generate",
      "validate_quiz">>

\* C1: extract_content is invoked only if the stripped request URL is non-empty
\* and validate_url accepted it; a request whose URL is empty, white space only
\* or rejected by validate_url is answered 400 with an error message, and no
\* extraction, summarization or quiz generation is invoked for it.
C1_NoExtractionWithoutValidUrl ==
    /\ Invoked("extract_content") =>
          /\ HasTextUrl
          /\ ~Blank(RequestedUrl)
          /\ url = StripStr(RequestedUrl)
          /\ validate_url(url).ok
    /\ (HasTextUrl /\ (Blank(RequestedUrl) \/ ~validate_url(StripStr(RequestedUrl)).ok)) =>
          /\ ~Invoked("extract_content") /\ ~Invoked("summarize") /\ ~Invoked("generate")
          /\ pc \in {"parse", "validate_url", "done"}
          /\ pc = "done" =>
                /\ response.code = 400
                /\ response.body.status = "error"
                /\ response.body.message # ""

\* a URL of white space only is answered 400 without any call
C1_Witness ==
    /\ pc = "done"
    /\ request = [kind |-> "object", url |-> UrlValue("  ")]
    /\ response = Reply(400, ErrorBody("URL is required"))
    /\ calls = <<>>

\* a URL rejected by validate_url is answered 400 and validate_url was the only call
C1_WitnessUnsafe ==
    /\ pc = "done"
    /\ request = [kind |-> "object", url |-> UrlValue("javascript:alert(1)")]
    /\ response = Reply(400, ErrorBody("Unsafe URL protocol detected"))
    /\ calls = <<"validate_url">>

\* C2: a stage that returns a non-success outcome ends the request at once: the
\* failing stage is the last one invoked, and the message of the response is the
\* message that stage produced.
C2_ShortCircuit ==
    /\ (Invoked("validate_url") /\ ~url_check.ok) =>
          calls = SubSeq(Pipeline, 1, 1) /\ EndedAt("validate_url", url_check.msg)
    /\ extraction_result.status \notin {"none", "success"} =>
          calls = SubSeq(Pipeline, 1, 2)
          /\ EndedAt("extract_content", extraction_result.message)
    /\ summary_result.status \notin {"none", "success"} =>
          calls = SubSeq(Pipeline, 1, 3) /\ EndedAt("summarize", summary_result.message)
    /\ (Invoked("validate_summary") /\ ~summary_check.ok) =>
          calls = SubSeq(Pipeline, 1, 4) /\ EndedAt("validate_summary", summary_check.msg)
    /\ quiz_result.status \notin {"none", "success"} =>
          calls = SubSeq(Pipeline, 1, 5) /\ EndedAt("generate", quiz_result.message)

\* a summary with a deny-list keyword ends the request before the quiz generator
C2_Witness ==
    /\ pc = "done"
    /\ summary_result.status = "success"
    /\ summary_check = Verdict(FALSE, "Content contains inappropriate material")
    /\ calls = SubSeq(Pipeline, 1, 4)
    /\ quiz_result = NoResult
    /\ response.body.message = "Content contains inappropriate material"

\* C3: the status code of a failure is set by the failing stage: 400 for an empty
\* or unsafe URL, for a failed extraction and for a rejected summary, 500 for a
\* failed summarization and a failed quiz generation.
C3_FailureCodes ==
    pc = "done" =>
        /\ (HasTextUrl /\ Blank(RequestedUrl)) => response.code = 400
        /\ (Invoked("validate_url") /\ ~url_check.ok) => response.code = 400
        /\ extraction_result.status = "error" => response.code = 400
        /\ summary_result.status = "error" => response.code = 500
        /\ (Invoked("validate_summary") /\ ~summary_check.ok) => response.code = 400
        /\ quiz_result.status = "error" => response.code = 500

\* a reply of the quiz backend that does not parse is answered 500
C3_Witness ==
    /\ pc = "done"
    /\ quiz_result = [status |-> "error", message |-> "Failed to parse quiz format"]
    /\ response = Reply(500, quiz_result)

\* the success envelope of lines 93-102 for the results at hand
Envelope ==
    Reply(200, [status |-> "success",
                data |-> [title |-> extraction_result.title,
                          content_type |-> extraction_result.type,
                          summary |-> summary_result.summary,
                          quiz |-> quiz_result.quiz,
                          url |-> StripStr(RequestedUrl)]])

\* C4: quiz validation never blocks the response: when the quiz generator
\* returned success and validate_quiz does not pass its quiz, whatever value it
\* is, the response is the 200 success envelope with that quiz.
C4_QuizValidationNeverBlocks ==
    (/\ pc = "done"
     /\ quiz_result.status = "success"
     /\ (quiz_check.raised \/ ~quiz_check.ok)) => response = Envelope

\* C4 for the quiz values that can be measured and iterated as questions: a
\* str, a list or a dict that is empty, or a list of objects with hashable types
C4_SizedQuestionLists ==
    (/\ pc = "done"
     /\ quiz_result.status = "success"
     /\ Sized(quiz_result.quiz)
     /\ (Truthy(quiz_result.quiz) =>
            /\ QuestionList(quiz_result.quiz)
            /\ \A i \in 1..Len(quiz_result.quiz.items) :
                  Hashable(QuestionType(quiz_result.quiz.items[i])))) =>
        response = Envelope

\* an empty question list is returned in the success envelope, the failure logged
C4_EmptyQuizReturned ==
    /\ pc = "done"
    /\ quiz_result.status = "success" /\ quiz_result.quiz = JList(<<>>)
    /\ quiz_check = Verdict(FALSE, "No quiz questions generated")
    /\ response.code = 200
    /\ response = Envelope
    /\ logged = <<Log("warning", "Quiz validation failed: No quiz questions generated")>>

ErrorPrefix == "Unexpected error in process_url: "
\* the exception text of the i-th log record
ExceptionText(i) == SubSeq(logged[i].msg, Len(ErrorPrefix) + 1, Len(logged[i].msg))

\* C5: an exception raised inside process_url is answered 500 with the fixed body
\* {status: error, message: "Internal server error"}; the text of the exception
\* is logged and is no part of the response.
C5_TopLevelHandler ==
    \A i \in 1..Len(logged) :
        logged[i].level = "error" =>
            /\ pc = "done"
            /\ response = Reply(500, [status |-> "error", message |-> "Internal server error"])
            /\ ~InStr(ExceptionText(i), response.body.message)

\* an exception raised by validate_quiz is answered with the fixed body
C5_Witness ==
    /\ pc = "done"
    /\ quiz_check = Raise("TypeError: unhashable type")
    /\ logged[Len(logged)] = Log("error", ErrorPrefix \o "TypeError: unhashable type")
    /\ response = Reply(500, ErrorBody("Internal server error"))

\* an exception raised while the request is parsed is answered with the fixed body
C5_WitnessParse ==
    /\ pc = "done"
    /\ request.kind = "bad_json"
    /\ calls = <<>>
    /\ response = Reply(500, ErrorBody("Internal server error"))

\* C6: when extraction, summarization, summary validation and quiz generation
\* all succeed, the response is 200 with the summarizer's summary, the quiz
\* generator's question list, the extraction's title and type, and the stripped
\* request URL.
C6_SuccessEnvelope ==
    (/\ pc = "done"
     /\ extraction_result.status = "success"
     /\ summary_result.status = "success"
     /\ summary_check.ok
     /\ quiz_result.status = "success"
     /\ quiz_result.quiz.t = "list") => response = Envelope

\* every 200 response is the envelope of the results at hand
C6_EnvelopeOf200 == response.code = 200 => response = Envelope

\* a quiz of two well-formed questions is returned unchanged
C6_TwoQuestionsReturned ==
    /\ pc = "done"
    /\ response.code = 200
    /\ response = Envelope
    /\ quiz_check.ok
    /\ Len(response.body.data.quiz.items) = 2
    /\ request.url.u = " https://example.com/article\n"
    /\ response.body.data.url = "https://example.com/article"

VideoUrls ==
    {"https://www.youtube.com/watch?v=abc123", "https://youtu.be/abc123",
     " https://www.youtube.com/embed/abc123 "}

StatusDigits == [s \in {401, 404, 429, 500} |->
                    CASE s = 401 -> "401" [] s = 404 -> "404" [] s = 429 -> "429" [] s = 500 -> "500"]

\* C7: for a valid video URL the transcript service is called, and a response
\* with a status other than 200 makes extract_content return an error whose
\* message holds that status; the request ends with 400 and that error.
C7_TranscriptStatus ==
    (pc = "done" /\ Invoked("extract_content")) =>
        /\ (HasTextUrl /\ RequestedUrl \in VideoUrls /\ config.api_key) =>
              world \in TranscriptWorlds
        /\ (world.kind = "response" /\ world.status # 200) =>
              /\ extraction_result.status = "error"
              /\ InStr(StatusDigits[world.status], extraction_result.message)
              /\ response = Reply(400, extraction_result)
              /\ calls = SubSeq(Pipeline, 1, 2)

\* a 404 of the transcript service for a watch URL is answered 400
C7_Witness ==
    /\ pc = "done"
    /\ url = "https://www.youtube.com/watch?v=abc123"
    /\ world.kind = "response" /\ world.status = 404
    /\ response.code = 400
    /\ response.body.message = "API Error: 404. Video may not have captions."

DenyList == {"violence", "hate", "adult content", "explicit", "drugs", "weapons", "illegal"}

\* C15: a 200 response is produced only if extraction, summarization and quiz
\* generation each returned success, in that order and each invoked exactly
\* once, and the summary of the envelope was accepted by validate_summary: not
\* empty, within the length bounds, without a deny-list keyword.
C15_SuccessOnlyIf ==
    response.code = 200 =>
        /\ pc = "done"
        /\ calls = Pipeline
        /\ extraction_result.status = "success"
        /\ summary_result.status = "success"
        /\ quiz_result.status = "success"
        /\ response.body.status = "success"
        /\ response.body.data.summary = summary_result.summary
        /\ summary_check.ok
        /\ TextLen(response.body.data.summary) >= 100
        /\ TextLen(response.body.data.summary) <= 200000
        /\ \A k \in DenyList : ~InText(k, TextLower(response.body.data.summary))

\* a 200 response with a summary of exactly the minimum length
C15_Witness ==
    /\ pc = "done"
    /\ response.code = 200
    /\ calls = Pipeline
    /\ TextLen(response.body.data.summary) = 100
    /\ extraction_result.type = "video"

\* C16: every successful extraction, of an article or of a video, carries at
\* least 100 characters of content, so that the summarizer never rejects the
\* content of a successful extraction as too short.
C16_ContentLongEnough ==
    extraction_result.status = "success" =>
        /\ TextLen(extraction_result.content) >= 100
        /\ summary_result.status = "error" =>
              summary_result.message # "Content too short for summarization"

\* what holds: a successful extraction of an article carries 100 characters or
\* more, one of a video 50 or more
C16_ContentByPath ==
    extraction_result.status = "success" =>
        TextLen(extraction_result.content) >=
            (IF extraction_result.type = "article" THEN 100 ELSE 50)

\* a transcript of 50 characters is extracted and then refused by the summarizer
C16_ShortTranscript ==
    /\ pc = "done"
    /\ extraction_result.status = "success"
    /\ extraction_result.type = "video"
    /\ TextLen(extraction_result.content) = 50
    /\ summary_result = [status |-> "error", message |-> "Content too short for summarization"]
    /\ response = Reply(500, summary_result)

(***************************************************************************)
(* Properties of extract_content (checked under SpecScraper)               *)
(***************************************************************************)
\* the text behind an optional prefix out of `prefixes`
Behind(s, prefixes) ==
    IF \E p \in prefixes : StartsWithAt(s, 1, p)
    THEN LET p == CHOOSE q \in prefixes : StartsWithAt(s, 1, q)
         IN SubSeq(s, Len(p) + 1, Len(s))
    ELSE s

RECURSIVE UpTo(_, _)
\* the text before the first character out of `stop`
UpTo(s, stop) == IF s = "" \/ Head(s) \in stop THEN "" ELSE Head(s) \o UpTo(Tail(s), stop)

\* the host of a URL: what follows the optional scheme and the optional www.
HostOf(u) == UpTo(Behind(Behind(u, {"http://", "https://"}), {"www."}), {"/"})

VideoHosts == {"youtube.com", "youtu.be", "youtube-nocookie.com"}

\* C11: extract_content routes every URL whose host is a video host (youtube.com,
\* youtu.be, youtube-nocookie.com, with optional scheme and www.) to
\* get_youtube_transcript and every other non-empty URL to scrape_article.
C11_Routing ==
    (pc = "returned" /\ arg.url # "") =>
        calls = IF HostOf(StripStr(arg.url)) \in VideoHosts
                THEN <<"get_youtube_transcript">>
                ELSE <<"scrape_article">>

\* exactly one of the two paths is taken for a non-empty URL, none for ''
C11_ExactlyOnePath ==
    pc = "returned" =>
        IF arg.url = "" THEN calls = <<>>
        ELSE calls \in {<<"get_youtube_transcript">>, <<"scrape_article">>}

\* a video host followed by a path is routed to the video path
C11_VideoHostWithPath ==
    LET rest == Behind(StripStr(arg.url), {"http://", "https://"}) IN
    (/\ pc = "returned"
     /\ HostOf(StripStr(arg.url)) \in VideoHosts
     /\ \E i \in 1..Len(rest) : CharAt(rest, i) = "/") => calls = <<"get_youtube_transcript">>

\* the bare host of a video site is scraped as an article
C11_BareHostScraped ==
    /\ pc = "returned"
    /\ arg.url = "https://www.youtube.com"
    /\ calls = <<"scrape_article">>

\* a host that is no video host is taken for a video
C11_OtherHostAsVideo ==
    /\ pc = "returned"
    /\ arg.url = "https://youtu.com/abc123"
    /\ calls = <<"get_youtube_transcript">>
    /\ ret.message = "Invalid YouTube URL format. Please check the URL."

\* the call of the transcript service or of the web site raised
CallRaised(w) == w.kind \in {"timeout", "connection_error", "exception"}

\* the body of a 200 response is no JSON
BodyUnparsed(w) == w.kind = "response" /\ w.status = 200 /\ ~w.body.valid

\* the first item of a 200 response is no object, so that .keys() of line 141 raises
ItemRaises(w) ==
    /\ w.kind = "response" /\ w.status = 200 /\ w.body.valid
    /\ w.body.data.t = "list" /\ Len(w.body.data.items) > 0
    /\ w.body.data.items[1].t # "dict"

\* C12: extract_content never raises: an exception on the video path or on the
\* article path (network, timeout, connection, parse, any other) ends as a
\* result with status error, a message, and the URL the path was given.
C12_NeverRaises ==
    pc = "returned" =>
        /\ "status" \in DOMAIN ret
        /\ ret.status \in {"success", "error"}
        /\ (CallRaised(world) \/ BodyUnparsed(world) \/ ItemRaises(world)) =>
              /\ ret.status = "error"
              /\ "message" \in DOMAIN ret /\ ret.message # ""
              /\ "url" \in DOMAIN ret /\ ret.url = StripStr(arg.url)

\* an exception of the transcript service ends as an error result
C12_Witness ==
    /\ pc = "returned"
    /\ calls = <<"get_youtube_transcript">>
    /\ world = [kind |-> "exception", text |-> "Connection refused"]
    /\ ret = [status |-> "error", message |-> "Failed: Connection refused",
              url |-> "https://youtu.be/abc123"]
    /\ arg.url = " https://youtu.be/abc123\n"

\* a connection error of the web site ends as an error result
C12_WitnessArticle ==
    /\ pc = "returned"
    /\ calls = <<"scrape_article">>
    /\ world = [kind |-> "connection_error"]
    /\ ret = [status |-> "error", message |-> "Connection error. Unable to reach the website.",
              url |-> "https://vimeo.com/1"]

\* .keys() of a first item that is a string ends as an error result
C12_WitnessParse ==
    /\ pc = "returned"
    /\ ItemRaises(world)
    /\ ret.message = "Failed: 'str' object has no attribute 'keys'"

\* the transcript service answered 200 with a JSON list that is not empty
Answered200(w) ==
    /\ w.kind = "response" /\ w.status = 200 /\ w.body.valid
    /\ w.body.data.t = "list" /\ Len(w.body.data.items) > 0

\* the text under `key` of an object, <<>> if it holds none
FieldText(item, key) ==
    IF item.t = "dict" /\ key \in DOMAIN item.fields /\ item.fields[key].t = "str"
    THEN item.fields[key].s ELSE <<>>

\* the texts of the fragments of tracks[0].transcript, joined by spaces
TracksText(item) ==
    IF /\ item.t = "dict" /\ "tracks" \in DOMAIN item.fields
       /\ item.fields["tracks"].t = "list" /\ Len(item.fields["tracks"].items) > 0
       /\ item.fields["tracks"].items[1].t = "dict"
       /\ "transcript" \in DOMAIN item.fields["tracks"].items[1].fields
       /\ item.fields["tracks"].items[1].fields["transcript"].t = "list"
    THEN LET fragments == SelectSeq(item.fields["tracks"].items[1].fields["transcript"].items,
                                    LAMBDA x : x.t = "dict" /\ FieldText(x, "text") # <<>>)
         IN JoinTexts(T(" "), [i \in 1..Len(fragments) |-> FieldText(fragments[i], "text")])
    ELSE <<>>

\* what each of the four shapes holds, in the order of their priority
ShapeTexts(item) ==
    <<FieldText(item, "text"), TracksText(item),
      IF item.t = "str" THEN item.s ELSE <<>>, FieldText(item, "content")>>

\* the text of the first shape that holds one, <<>> if none does
FirstShapeText(item) ==
    LET texts == ShapeTexts(item)
        holding == {i \in 1..Len(texts) : TextLen(texts[i]) > 0}
    IN IF holding = {} THEN <<>> ELSE texts[SetMin(holding)]

\* C14: on a 200 response the shapes of the first item are tried in the order
\* text field, tracks[0].transcript fragments, bare string, content field, and
\* whenever a shape holds text, the text of the first such shape is extracted;
\* the parse error is returned only if no shape holds text.
C14_ShapeOrder ==
    (pc = "returned" /\ Answered200(world)) =>
        LET text == FirstShapeText(world.body.data.items[1]) IN
        IF TextLen(text) > 0
        THEN \/ ret.status = "success" /\ ret.content = TextStrip(text)
             \/ /\ TextLen(TextStrip(text)) < MIN_TRANSCRIPT_LENGTH
                /\ ret = ErrorResult("Transcript is empty or too short.", url)
        ELSE ret.status = "error"

\* the key that is present first among text, tracks, content
FirstKey(item) ==
    IF "text" \in DOMAIN item.fields THEN "text"
    ELSE IF "tracks" \in DOMAIN item.fields THEN "tracks"
    ELSE IF "content" \in DOMAIN item.fields THEN "content"
    ELSE "none"

\* what holds: for an object, the first key present decides alone, and its text
\* is extracted if it holds one; an item that is a string is not parsed
C14_FirstKeyDecides ==
    (pc = "returned" /\ Answered200(world)) =>
        LET item == world.body.data.items[1] IN
        IF item.t = "dict"
        THEN LET key == FirstKey(item)
                 text == IF key = "tracks" THEN TracksText(item) ELSE FieldText(item, key)
             IN IF key # "none" /\ TextLen(text) > 0
                THEN \/ ret.status = "success" /\ ret.content = TextStrip(text)
                     \/ /\ TextLen(TextStrip(text)) < MIN_TRANSCRIPT_LENGTH
                        /\ ret = ErrorResult("Transcript is empty or too short.", url)
                ELSE ret.status = "error"
        ELSE ret = ErrorResult("Failed: '" \o PyTypeName(item)
                                  \o "' object has no attribute 'keys'", url)

\* the text field wins over the content field
C14_TextBeforeContent ==
    /\ pc = "returned" /\ Answered200(world)
    /\ world.body.data.items[1] = Obj2("text", JStr(Pad(60)), "content", JStr(Pad(150)))
    /\ ret.status = "success" /\ ret.content = Pad(60)

\* an empty text field hides the transcript of the tracks
C14_EmptyTextHidesTracks ==
    /\ pc = "returned" /\ Answered200(world)
    /\ FieldText(world.body.data.items[1], "text") = <<>>
    /\ TextLen(TracksText(world.body.data.items[1])) = 150
    /\ ret.message = "Failed to parse transcript data."

\* an item that is a string of 150 characters is not extracted
C14_BareStringFails ==
    /\ pc = "returned" /\ Answered200(world)
    /\ world.body.data.items[1] = JStr(Pad(150))
    /\ ret.message = "Failed: 'str' object has no attribute 'keys'"

(***************************************************************************)
(* Properties of QuizGenerator.generate (checked under SpecQuizGenerator)  *)
(***************************************************************************)
ValidDocs == {d[1] : d \in JsonDocs}
DocValue(text) == (CHOOSE d \in JsonDocs : d[1] = text)[2]

\* the questions of a JSON payload, an empty list when it has no such key
QuestionsOf(j) ==
    IF j.t = "dict" /\ "questions" \in DOMAIN j.fields THEN j.fields["questions"]
    ELSE JList(<<>>)

\* a reply that is the document alone, or in a fence with an optional language tag
Tolerated == {"plain", "padded", "fence", "json", "JSON", "python"}

ParseError == [status |-> "error", message |-> "Failed to parse quiz format"]

\* C13: generate calls the backend at most once and never raises; valid JSON,
\* alone or in a fenced block with an optional language tag, yields success with
\* the questions of the payload, an empty list without the key; malformed JSON
\* yields the parse error; an exception yields the generation-failed error with
\* the message of the backend.
C13_Generate ==
    pc = "returned" =>
        /\ Len(calls) <= 1
        /\ "status" \in DOMAIN ret
        /\ world.kind = "exception" =>
              ret = [status |-> "error",
                     message |-> "Quiz generation failed: " \o world.text]
        /\ (world.kind = "text" /\ world.wrapper \in Tolerated) =>
              IF world.doc \in ValidDocs
              THEN /\ ret.status = "success"
                   /\ ret.quiz = QuestionsOf(DocValue(world.doc))
              ELSE ret = ParseError

\* what holds: a JSON object, alone or in a fence with no tag or the tag json,
\* yields its questions; malformed JSON the parse error; an exception its message
C13_ObjectReplies ==
    pc = "returned" =>
        /\ Len(calls) <= 1
        /\ "status" \in DOMAIN ret
        /\ world.kind = "exception" =>
              ret = [status |-> "error",
                     message |-> "Quiz generation failed: " \o world.text]
        /\ (world.kind = "text" /\ world.wrapper \in {"plain", "padded", "fence", "json"}) =>
              IF world.doc \in ValidDocs
              THEN DocValue(world.doc).t = "dict" =>
                      /\ ret.status = "success"
                      /\ ret.quiz = QuestionsOf(DocValue(world.doc))
              ELSE ret = ParseError

\* a fenced object with the tag json yields its questions
C13_FencedObject ==
    /\ pc = "returned"
    /\ world.kind = "text"
    /\ world.text = Fence \o "json\n{\"questions\": [{\"id\": 1}]}\n" \o Fence
    /\ ret.status = "success"
    /\ ret.quiz = JList(<<Obj1("id", JNum(1))>>)

\* a JSON array is answered as a failed generation
C13_BareArray ==
    /\ pc = "returned"
    /\ world.kind = "text" /\ world.text = "[]"
    /\ ret = [status |-> "error",
              message |-> "Quiz generation failed: 'list' object has no attribute 'get'"]

\* the abstraction of a reply used by process_url (fenced, tag, document) gives
\* the result of the text it stands for
C13_ReplyAbstraction ==
    (pc = "returned" /\ world.kind = "text"
       /\ world.wrapper \in {"plain", "fence", "json", "JSON"}) =>
        ret = generate_with_backend(arg.model_type,
                 [kind |-> "reply",
                  fenced |-> world.wrapper # "plain",
                  tag |-> IF world.wrapper \in {"json", "JSON"} THEN world.wrapper ELSE "",
                  doc |-> IF world.doc \in ValidDocs
                          THEN [valid |-> TRUE, data |-> DocValue(world.doc)]
                          ELSE [valid |-> FALSE]])

====
